---- MODULE Spec2Model ----
(***************************************************************************)
(* Model of the Showcase-portfolio scene code: the building's clickable    *)
(* windows (KillerBuilding.jsx), the 'windowClick' notification channel    *)
(* (BuildingScene), the code-editor popup overlay                          *)
(* (KillerBuildingWithPopup.jsx) and the tri-band toon fragment shader     *)
(* (ThreeBandToonMaterial).                                                *)
(***************************************************************************)
EXTENDS Integers, Sequences, FiniteSets, TLC

VARIABLES
    mounted,        \* KillerBuildingWithPopup is mounted (its effect has run)
    listeners,      \* number of 'windowClick' listeners registered on window
    activePopup,    \* useState(null) of KillerBuildingWithPopup
    codeContent,    \* useState('') of KillerBuildingWithPopup
    code,           \* useState(initialCode) of each CodeEditorPopup, by key
    windowConfigs,  \* the module-level windowConfigs object
    uiEvent,        \* the UI event handled by the latest step, and the value
                    \* activePopup had when it arrived
    emitted,        \* details of the CustomEvents dispatched by the latest step
    uniforms,       \* uniforms of the material shading the current fragment
    dotNL,          \* dot(normalize(vNormalW), normalize(lightDir)), in 1/Scale
    gl_FragColor,   \* colour written by the fragment shader
    fragments,      \* inputs of the fragments of the frame being drawn
    framebuffer,    \* colour written for each fragment of the frame
    lastFrame,      \* the framebuffer of the previous, completed frame
    scene,          \* which root structure is on the canvas
    refAttached,    \* the root group's ref.current is set
    elapsed,        \* state.clock.getElapsedTime() at the latest frame
    rotationY,      \* rotation.y of the root group
    sceneGraph,     \* the other transforms: the root group's position, scale
                    \* and rotation about x and z, and its child meshes
    frames,         \* frame callbacks that wrote rotationY, up to FrameCap
    steps,          \* argument of createGradientTexture
    data,           \* the Uint8Array filled by createGradientTexture
    laptopMounted,  \* a KillerLaptop instance is committed
    imageLoaded,    \* the screen image of useTexture is in the loader cache
    gradientMap,    \* the useMemo cell of the committed instance: the table
                    \* it holds, named by the call that made it
    materialMaps,   \* the gradientMap prop of each meshToonMaterial
    calls,          \* invocations of createGradientTexture so far
    renders         \* committed renders of the instance, up to RenderCap

overlayVars == <<mounted, listeners, activePopup, codeContent, code, windowConfigs>>
sceneVars   == <<uiEvent, emitted>>
shaderVars  == <<uniforms, dotNL, gl_FragColor>>
frameVars   == <<fragments, framebuffer, lastFrame>>
animVars    == <<scene, refAttached, elapsed, rotationY, sceneGraph, frames>>
textureVars == <<steps, data, laptopMounted, imageLoaded, gradientMap, materialMaps,
                 calls, renders>>
renderVars  == <<frameVars, animVars, textureVars>>
vars        == <<overlayVars, sceneVars, shaderVars, renderVars>>

(***************************************************************************)
(* Bounds of the model.                                                    *)
(***************************************************************************)
\* number of distinct strings a user types into a textarea
MaxEdit == 2
\* resolution of the shader's scalars: one unit is 1/Scale
Scale == 100
\* number of fragments of a frame
NumFragments == 3
\* largest elapsed time of the clock, in tenths of a second
MaxElapsed == 420
\* largest time between two frames, in tenths of a second
MaxDt == 3
\* the count of frame callbacks saturates here
FrameCap == 2
\* largest step count passed to createGradientTexture
MaxSteps == 260
\* elapsed time up to which frames interleave with the overlay's handlers,
\* in tenths of a second
MaxInterleaved == 6
\* largest number of invocations of createGradientTexture
CallCap == 4
\* the count of committed renders of one instance saturates here
RenderCap == 2

(***************************************************************************)
(* Static data.                                                            *)
(***************************************************************************)
\* JavaScript null
Null == "null"

\* JavaScript undefined
Undefined == "undefined"

\* Names every object literal inherits from Object.prototype.
ObjectPrototypeKeys ==
    { "constructor", "toString", "valueOf", "hasOwnProperty", "__proto__" }

\* Payloads of 'windowClick' events that no window of the building
\* publishes.
ForeignPayloads == { "attic", "constructor" }

\* Variant: no window is given a lightColor, so each pane has the default.
BuildingWindows_DefaultLight ==
    { [id |-> "bottom-left",  x |-> 0,  y |-> 10, lightColor |-> "#ffff00"],
      [id |-> "bottom-right", x |-> 20, y |-> 10, lightColor |-> "#ffff00"],
      [id |-> "top-left",     x |-> 0,  y |-> 22, lightColor |-> "#ffff00"],
      [id |-> "top-right",    x |-> 20, y |-> 22, lightColor |-> "#ffff00"] }

\* The four IndustrialWindow elements of the building: the identifier each
\* pane's onClick passes to onWindowClick, and the lightColor of the pane;
\* position is the window group's [x, y] in tenths of a scene unit.
BuildingWindows ==
    { [id |-> "bottom-left",  x |-> 0,  y |-> 10, lightColor |-> "#ff6b6b"],
      [id |-> "bottom-right", x |-> 20, y |-> 10, lightColor |-> "#4ecdc4"],
      [id |-> "top-left",     x |-> 0,  y |-> 22, lightColor |-> "#45b7d1"],
      [id |-> "top-right",    x |-> 20, y |-> 22, lightColor |-> "#f9ca24"] }

WindowIds == { w.id : w \in BuildingWindows }

\* Meshes of the building and of a window that carry no onClick handler.
PlainMeshes == { "window-frame", "cross-bar", "wall", "door", "roof" }

\* windowConfigs as written in the source; each initialCode is stood for by
\* its first line.
InitialWindowConfigs ==
    [ w \in { "bottom-left", "bottom-right", "top-left", "top-right" } |->
        CASE w = "bottom-left"  -> [ title       |-> "Frontend Development",
                                     color       |-> "#ff6b6b",
                                     initialCode |-> "// React Component Example" ]
          [] w = "bottom-right" -> [ title       |-> "Backend Development",
                                     color       |-> "#4ecdc4",
                                     initialCode |-> "// Express.js API Example" ]
          [] w = "top-left"     -> [ title       |-> "Database Design",
                                     color       |-> "#45b7d1",
                                     initialCode |-> "-- SQL Database Schema Example" ]
          [] w = "top-right"    -> [ title       |-> "DevOps & Deployment",
                                     color       |-> "#f9ca24",
                                     initialCode |-> "# Docker Compose Example" ] ]

ConfigKeys == DOMAIN windowConfigs

\* The strings e.target.value takes in the model: the emptied textarea and
\* MaxEdit typed texts.
TypedText(n) == "// typed " \o ToString(n)
EditTexts == { TypedText(n) : n \in 1..MaxEdit } \cup { "" }

(***************************************************************************)
(* Popup overlay: KillerBuildingWithPopup and its CodeEditorPopup children. *)
(***************************************************************************)
\* Variant: isVisible={activePopup !== null}.
IsVisible_AnyActive(windowId) == mounted /\ activePopup # Null

\* isVisible={activePopup === windowId}; CodeEditorPopup returns null unless
\* isVisible, and nothing is rendered while the overlay is not mounted.
IsVisible(windowId) == mounted /\ activePopup = windowId

VisiblePopups == { w \in ConfigKeys : IsVisible(w) }

\* The value attribute of the textarea of the popup keyed windowId.
TextareaValue(windowId) == code[windowId]
\* Variant: a click on the window of the open popup toggles it closed.
HandleWindowClick_Toggle(windowId) ==
    <<IF activePopup = windowId THEN Null ELSE windowId,
      IF windowId \in ConfigKeys
          THEN windowConfigs[windowId].initialCode
          ELSE codeContent>>

\* Variant: the initial code is loaded only into an empty text body.
HandleWindowClick_KeepText(windowId) ==
    <<windowId,
      IF windowId \in ConfigKeys /\ codeContent = ""
          THEN windowConfigs[windowId].initialCode
          ELSE codeContent>>

\* handleWindowClick(event) with event.detail = windowId: the pair of new
\* values <<activePopup, codeContent>>.
\* Variant: the initial code is appended to the text already held.
HandleWindowClick_AppendsCode(windowId) ==
    <<windowId,
      IF windowId \in ConfigKeys
          THEN codeContent \o windowConfigs[windowId].initialCode
          ELSE codeContent>>

\* const config = windowConfigs[windowId]; if (config) setCodeContent(
\* config.initialCode): an own key gives its entry, a name that every object
\* inherits gives a member of Object.prototype, which is truthy and has no
\* initialCode, and any other value gives undefined.
HandleWindowClick(windowId) ==
    <<windowId,
      IF windowId \in ConfigKeys
          THEN windowConfigs[windowId].initialCode
          ELSE IF windowId \in ObjectPrototypeKeys
                   THEN Undefined
                   ELSE codeContent>>

\* Variant: the listener is registered at module load and never removed.
DispatchEvent_AlwaysHandled(detail) ==
    /\ activePopup' = HandleWindowClick(detail)[1]
    /\ codeContent' = HandleWindowClick(detail)[2]

\* window.dispatchEvent(new CustomEvent('windowClick', {detail})): every
\* registered listener runs synchronously; with none the event is dropped.
DispatchEvent(detail) ==
    IF listeners > 0
        THEN /\ activePopup' = HandleWindowClick(detail)[1]
             /\ codeContent' = HandleWindowClick(detail)[2]
        ELSE UNCHANGED <<activePopup, codeContent>>

\* First render of the overlay, then its effect: the useState initial values
\* of the overlay and of one CodeEditorPopup per config key, and
\* window.addEventListener('windowClick', handleWindowClick).
Mount ==
    /\ ~mounted
    /\ mounted' = TRUE
    /\ listeners' = listeners + 1
    /\ activePopup' = Null
    /\ codeContent' = ""
    /\ code' = [ w \in ConfigKeys |-> windowConfigs[w].initialCode ]
    /\ uiEvent' = [type |-> "mount", target |-> "overlay", from |-> activePopup]
    /\ emitted' = <<>>
    /\ UNCHANGED <<windowConfigs, shaderVars, renderVars>>

\* Variant: the effect returns no cleanup, so the listener stays registered.
Unmount_NoCleanup ==
    /\ mounted
    /\ mounted' = FALSE
    /\ listeners' = listeners
    /\ uiEvent' = [type |-> "unmount", target |-> "overlay", from |-> activePopup]
    /\ emitted' = <<>>
    /\ UNCHANGED <<activePopup, codeContent, code, windowConfigs, shaderVars, renderVars>>

\* Effect cleanup: window.removeEventListener('windowClick', handleWindowClick).
\* The component state is discarded; nothing reads it until the next Mount.
Unmount ==
    /\ mounted
    /\ mounted' = FALSE
    /\ listeners' = listeners - 1
    /\ uiEvent' = [type |-> "unmount", target |-> "overlay", from |-> activePopup]
    /\ emitted' = <<>>
    /\ UNCHANGED <<activePopup, codeContent, code, windowConfigs, shaderVars, renderVars>>

\* Variant: every pane's onClick passes 'bottom-left'.
WindowClick_SameId(w) ==
    /\ uiEvent' = [type |-> "click", target |-> "window-pane", from |-> activePopup]
    /\ emitted' = <<"bottom-left">>
    /\ DispatchEvent("bottom-left")
    /\ UNCHANGED <<mounted, listeners, code, windowConfigs, shaderVars, renderVars>>

\* A click on the pane mesh of window w: onClick -> onWindowClick(w.id) ->
\* window.dispatchEvent(new CustomEvent('windowClick', { detail: windowId })).
\* Variant: the pane's onClick also turns the building back to its rest pose.
WindowClick_ResetsYaw(w) ==
    /\ uiEvent' = [type |-> "click", target |-> "window-pane", from |-> activePopup]
    /\ emitted' = <<w.id>>
    /\ DispatchEvent(w.id)
    /\ rotationY' = 0
    /\ UNCHANGED <<scene, refAttached, elapsed, sceneGraph, frames>>
    /\ UNCHANGED <<mounted, listeners, code, windowConfigs, shaderVars, frameVars, textureVars>>

WindowClick(w) ==
    /\ uiEvent' = [type |-> "click", target |-> "window-pane", from |-> activePopup]
    /\ emitted' = <<w.id>>
    /\ DispatchEvent(w.id)
    /\ UNCHANGED <<mounted, listeners, code, windowConfigs, shaderVars, renderVars>>

\* Variant: a click beside the panes closes the open popup from the scene.
MeshClick_ClosesPopup(m) ==
    /\ uiEvent' = [type |-> "click", target |-> m, from |-> activePopup]
    /\ emitted' = <<>>
    /\ activePopup' = Null
    /\ UNCHANGED <<mounted, listeners, codeContent, code, windowConfigs, shaderVars, renderVars>>

\* Another script of the page dispatches
\* new CustomEvent('windowClick', { detail }) on window.
ExternalDispatch(detail) ==
    /\ uiEvent' = [type |-> "dispatch", target |-> "window", from |-> activePopup]
    /\ emitted' = <<detail>>
    /\ DispatchEvent(detail)
    /\ UNCHANGED <<mounted, listeners, code, windowConfigs, shaderVars, renderVars>>

\* A click whose ray meets no window pane: of the meshes it meets (here m is
\* the nearest) none has an onClick handler, so no handler runs.
MeshClick(m) ==
    /\ uiEvent' = [type |-> "click", target |-> m, from |-> activePopup]
    /\ emitted' = <<>>
    /\ UNCHANGED <<overlayVars, shaderVars, renderVars>>

\* Variant: the edit is also written back into the popup's config entry.
CodeChange_WritesConfig(windowId, newCode) ==
    /\ IsVisible(windowId)
    /\ code' = [code EXCEPT ![windowId] = newCode]
    /\ codeContent' = newCode
    /\ windowConfigs' = [windowConfigs EXCEPT ![windowId].initialCode = newCode]
    /\ uiEvent' = [type |-> "change", target |-> windowId, from |-> activePopup]
    /\ emitted' = <<>>
    /\ UNCHANGED <<mounted, listeners, activePopup, shaderVars, renderVars>>

\* onChange of the visible popup's textarea: CodeEditorPopup.handleCodeChange
\* (setCode, then onCodeChange) and the overlay's handleCodeChange.
\* Variant: the four popups are bound to one shared text state.
CodeChange_SharedBuffer(windowId, newCode) ==
    /\ IsVisible(windowId)
    /\ code' = [ w \in DOMAIN code |-> newCode ]
    /\ codeContent' = newCode
    /\ uiEvent' = [type |-> "change", target |-> windowId, from |-> activePopup]
    /\ emitted' = <<>>
    /\ UNCHANGED <<mounted, listeners, activePopup, windowConfigs, shaderVars, renderVars>>

CodeChange(windowId, newCode) ==
    /\ IsVisible(windowId)
    /\ code' = [code EXCEPT ![windowId] = newCode]
    /\ codeContent' = newCode
    /\ uiEvent' = [type |-> "change", target |-> windowId, from |-> activePopup]
    /\ emitted' = <<>>
    /\ UNCHANGED <<mounted, listeners, activePopup, windowConfigs, shaderVars, renderVars>>
\* Variant: handleClose stops the event but never calls onClose.
ClosePopup_NoOnClose(windowId) ==
    /\ IsVisible(windowId)
    /\ uiEvent' = [type |-> "close", target |-> windowId, from |-> activePopup]
    /\ emitted' = <<>>
    /\ UNCHANGED <<overlayVars, shaderVars, renderVars>>

\* Click on the visible popup's close button: handleClose -> onClose ->
\* handleClosePopup.
\* Variant: closing also clears the overlay's text body.
ClosePopup_ClearsText(windowId) ==
    /\ IsVisible(windowId)
    /\ activePopup' = Null
    /\ codeContent' = ""
    /\ uiEvent' = [type |-> "close", target |-> windowId, from |-> activePopup]
    /\ emitted' = <<>>
    /\ UNCHANGED <<mounted, listeners, code, windowConfigs, shaderVars, renderVars>>

ClosePopup(windowId) ==
    /\ IsVisible(windowId)
    /\ activePopup' = Null
    /\ uiEvent' = [type |-> "close", target |-> windowId, from |-> activePopup]
    /\ emitted' = <<>>
    /\ UNCHANGED <<mounted, listeners, codeContent, code, windowConfigs, shaderVars, renderVars>>

\* Click on the visible popup's "Run Code" button, which has no onClick.
RunCode(windowId) ==
    /\ IsVisible(windowId)
    /\ uiEvent' = [type |-> "run", target |-> windowId, from |-> activePopup]
    /\ emitted' = <<>>
    /\ UNCHANGED <<overlayVars, shaderVars, renderVars>>
\* Variant: "Save" stores the popup's text as the config's initial code.
Save_StoresText(windowId) ==
    /\ IsVisible(windowId)
    /\ windowConfigs' = [windowConfigs EXCEPT ![windowId].initialCode = code[windowId]]
    /\ uiEvent' = [type |-> "save", target |-> windowId, from |-> activePopup]
    /\ emitted' = <<>>
    /\ UNCHANGED <<mounted, listeners, activePopup, codeContent, code, shaderVars, renderVars>>

\* Click on the visible popup's "Save" button, which has no onClick.
Save(windowId) ==
    /\ IsVisible(windowId)
    /\ uiEvent' = [type |-> "save", target |-> windowId, from |-> activePopup]
    /\ emitted' = <<>>
    /\ UNCHANGED <<overlayVars, shaderVars, renderVars>>

(***************************************************************************)
(* ThreeBandToonMaterial: the fragment shader.  Scalars are fixed point in *)
(* units of 1/Scale.                                                       *)
(***************************************************************************)
\* t1: 0.33 and t2: 0.66, the material's default thresholds.
T1Default == (33 * Scale) \div 100
T2Default == (66 * Scale) \div 100

\* The uniforms the material declares, with their default values.
DefaultUniforms ==
    [ colorA |-> "#000000", colorB |-> "#514f8f", colorC |-> "#a99d9b",
      t1 |-> T1Default, t2 |-> T2Default, lightDir |-> <<5, 8, 5>> ]

\* colorA, colorB, colorC as passed by meshes of the laptop (keyboard deck,
\* chassis) and of the building (the palette with the two dark shades
\* swapped).
Palettes ==
    { <<"#000000", "#514f8f", "#a99d9b">>,
      <<"#000000", "#2b2958", "#bfb3ad">>,
      <<"#34495e", "#2c3e50", "#5d6d7e">> }

\* Values of the props t1 and t2 taken in the model.
ThresholdValues == { 0, T1Default, Scale \div 2, T2Default, Scale }

UniformValues ==
    { [ colorA |-> p[1], colorB |-> p[2], colorC |-> p[3], t1 |-> a, t2 |-> b,
        lightDir |-> <<5, 8, 5>> ] :
        p \in Palettes, a \in ThresholdValues, b \in ThresholdValues }

\* The props of a <threeBandToonMaterial> element.
ToonProps(a, b, c, withInvert) ==
    LET given == [ colorA |-> a, colorB |-> b, colorC |-> c,
                   t1 |-> (33 * Scale) \div 100, t2 |-> (66 * Scale) \div 100,
                   lightDir |-> <<5, 8, 5>> ]
    IN IF withInvert
       THEN [ k \in DOMAIN given \cup {"invert"} |->
                IF k = "invert" THEN Scale ELSE given[k] ]
       ELSE given

\* The distinct props of the <threeBandToonMaterial> elements of the
\* program: two of the laptop, six of the building and its windows.
MaterialProps ==
    { ToonProps("#000000", "#514f8f", "#a99d9b", FALSE),
      ToonProps("#000000", "#2b2958", "#bfb3ad", FALSE),
      ToonProps("#2c3e50", "#34495e", "#7f8c8d", TRUE),
      ToonProps("#2c3e50", "#34495e", "#5d6d7e", TRUE),
      ToonProps("#34495e", "#2c3e50", "#5d6d7e", TRUE),
      ToonProps("#5d6d7e", "#7f8c8d", "#a6acaf", TRUE),
      ToonProps("#8b7355", "#a68b5b", "#c4a484", TRUE),
      ToonProps("#6b5b47", "#8b7355", "#a68b5b", TRUE) }

\* Variant: the prop invert exchanges the two thresholds.
ApplyProps_InvertSwaps(props) ==
    [ k \in DOMAIN DefaultUniforms |->
        IF "invert" \in DOMAIN props /\ k = "t1" THEN props.t2
        ELSE IF "invert" \in DOMAIN props /\ k = "t2" THEN props.t1
        ELSE IF k \in DOMAIN props THEN props[k]
        ELSE DefaultUniforms[k] ]

\* Variant: a positive invert exchanges the darkest and the lightest colour.
ApplyProps_InvertFlips(props) ==
    LET flips == IF "invert" \in DOMAIN props THEN props.invert > 0 ELSE FALSE
    IN [ k \in DOMAIN DefaultUniforms |->
           IF flips /\ k = "colorA" THEN props.colorC
           ELSE IF flips /\ k = "colorC" THEN props.colorA
           ELSE IF k \in DOMAIN props THEN props[k]
           ELSE DefaultUniforms[k] ]

\* The uniforms of a material constructed with props: each declared uniform
\* takes the prop of its name if one is given and keeps its default
\* otherwise; a prop that is no uniform (invert) reaches no uniform.
ApplyProps(props) ==
    [ k \in DOMAIN DefaultUniforms |->
        IF k \in DOMAIN props THEN props[k] ELSE DefaultUniforms[k] ]

\* The cosines dot(normalize(vNormalW), normalize(lightDir)) can take.
DotValues == (0 - Scale)..Scale

Max(a, b) == IF a > b THEN a ELSE b

\* float ndl = max(0.0, dot(normalize(vNormalW), normalize(lightDir)));
Ndl(d) == Max(0, d)
\* Variant: the band boundaries belong to the lower band.
BandColor_LowerInclusive(u, ndl) ==
    IF ndl <= u.t1 THEN u.colorA
    ELSE IF ndl <= u.t2 THEN u.colorB
    ELSE u.colorC

\* Variant: the upper threshold is tested first.
BandColor_UpperFirst(u, ndl) ==
    IF ndl < u.t2
        THEN (IF ndl < u.t1 THEN u.colorA ELSE u.colorB)
        ELSE u.colorC

\* vec3 col = ndl < t1 ? colorA : (ndl < t2 ? colorB : colorC);
BandColor(u, ndl) ==
    IF ndl < u.t1 THEN u.colorA
    ELSE IF ndl < u.t2 THEN u.colorB
    ELSE u.colorC

\* main() of the fragment shader for the current fragment.
FragmentMain ==
    /\ gl_FragColor = "unset"
    /\ gl_FragColor' = BandColor(uniforms, Ndl(dotNL))
    /\ UNCHANGED <<uniforms, dotNL, overlayVars, sceneVars, renderVars>>

\* The rasterizer moves on to another fragment of the same mesh.
NextFragment(d) ==
    /\ gl_FragColor # "unset"
    /\ dotNL' = d
    /\ gl_FragColor' = "unset"
    /\ UNCHANGED <<uniforms, overlayVars, sceneVars, renderVars>>

\* The renderer moves on to a mesh whose material has the uniforms u.
NextMaterial(u) ==
    /\ gl_FragColor # "unset"
    /\ uniforms' = u
    /\ gl_FragColor' = "unset"
    /\ UNCHANGED <<dotNL, overlayVars, sceneVars, renderVars>>

(***************************************************************************)
(* A frame: the fragment shader runs once per fragment, in any order, and  *)
(* the same static scene is drawn again in the next frame.                 *)
(***************************************************************************)
\* The inputs a fragment of the frame can have.
FrameInputs ==
    { [ uniforms |-> u, dotNL |-> d ] :
        u \in { v \in UniformValues : v.t1 = T1Default /\ v.t2 = T2Default
                                       /\ v.colorA = "#000000" },
        d \in { 0 - T1Default, T1Default, T2Default, Scale } }

Pixels == 1..NumFragments

ShadedPixels == { p \in DOMAIN framebuffer : framebuffer[p] # "unset" }

\* Variant: ndl is a global that is never reset, so a fragment is lit at
\* least as brightly as every fragment shaded before it in the frame.
ShadeFragment_GlobalNdl(p) ==
    /\ p \in DOMAIN framebuffer
    /\ framebuffer[p] = "unset"
    /\ LET seen == { Ndl(fragments[q].dotNL) : q \in ShadedPixels }
           ndl  == IF \E n \in seen : n > Ndl(fragments[p].dotNL)
                       THEN CHOOSE n \in seen : \A m \in seen : m <= n
                       ELSE Ndl(fragments[p].dotNL)
       IN  framebuffer' = [framebuffer EXCEPT ![p] = BandColor(fragments[p].uniforms, ndl)]
    /\ UNCHANGED <<fragments, lastFrame, animVars, textureVars>>
    /\ UNCHANGED <<overlayVars, sceneVars, shaderVars>>

\* main() of the fragment shader for fragment p of the frame.
ShadeFragment(p) ==
    /\ p \in DOMAIN framebuffer
    /\ framebuffer[p] = "unset"
    /\ framebuffer' = [framebuffer EXCEPT ![p] =
                          BandColor(fragments[p].uniforms, Ndl(fragments[p].dotNL))]
    /\ UNCHANGED <<fragments, lastFrame, animVars, textureVars>>
    /\ UNCHANGED <<overlayVars, sceneVars, shaderVars>>

\* The frame is complete and the same fragments are drawn again.
PresentFrame ==
    /\ framebuffer # <<>>
    /\ ShadedPixels = DOMAIN framebuffer
    /\ lastFrame' = framebuffer
    /\ framebuffer' = [ p \in DOMAIN framebuffer |-> "unset" ]
    /\ UNCHANGED <<fragments, animVars, textureVars>>
    /\ UNCHANGED <<overlayVars, sceneVars, shaderVars>>

(***************************************************************************)
(* Idle animation: the useFrame callbacks of KillerLaptop and              *)
(* KillerBuilding3D.  Time is in tenths of a second, angles are in         *)
(* milliradians, sines in thousandths.                                     *)
(***************************************************************************)
Scenes == { "laptop", "building" }

\* Variant: the building's factor 0.15 is used for both structures.
Frequency_Same(s) == 15

\* t * 0.2 (laptop) and t * 0.15 (building): milliradians per tenth of a
\* second.
Frequency(s) == IF s = "laptop" THEN 20 ELSE 15

\* The factors 0.3 (laptop) and 0.1 (building), in milliradians.
Amplitude(s) == IF s = "laptop" THEN 300 ELSE 100

\* Math.sin on [0, pi/2]: r - r^3/3! + r^5/5! - r^7/7! in Horner form, r in
\* milliradians, the result in thousandths.
SinQuarter(r) ==
    LET x2 == (r * r) \div 1000
        a  == 1000 - x2 \div 42
        b  == 1000 - (x2 * a) \div 20000
        c  == 1000 - (x2 * b) \div 6000
    IN  (r * c) \div 1000

\* Math.sin of an angle x >= 0 in milliradians, by the symmetries of the
\* sine (pi = 3142, 2 pi = 6283 milliradians).
Sin(x) ==
    LET r == x % 6283
        h == IF r > 3142 THEN r - 3142 ELSE r
        q == IF h > 1571 THEN 3142 - h ELSE h
    IN  IF r > 3142 THEN 0 - SinQuarter(q) ELSE SinQuarter(q)

\* The product of a sine in thousandths and a factor, rounded towards zero.
Scaled(sine, factor) ==
    IF sine < 0 THEN 0 - (((0 - sine) * factor) \div 1000)
    ELSE (sine * factor) \div 1000

\* Math.sin(t * 0.2) * 0.3, resp. Math.sin(t * 0.15) * 0.1.
YawAt(s, t) == Scaled(Sin(t * Frequency(s)), Amplitude(s))

\* The root group is committed: ref.current is set.
AttachRef ==
    /\ ~refAttached
    /\ refAttached' = TRUE
    /\ UNCHANGED <<scene, elapsed, rotationY, sceneGraph, frames>>
    /\ UNCHANGED <<overlayVars, sceneVars, shaderVars, frameVars, textureVars>>

\* Variant: the callback adds the oscillation to the current rotation.
FrameStep_Accumulates(dt) ==
    /\ elapsed + dt <= MaxElapsed
    /\ elapsed' = elapsed + dt
    /\ IF refAttached
           THEN /\ rotationY' = rotationY + YawAt(scene, elapsed')
                /\ frames' = IF frames < FrameCap THEN frames + 1 ELSE frames
           ELSE UNCHANGED <<rotationY, frames>>
    /\ UNCHANGED <<scene, refAttached, sceneGraph>>
    /\ UNCHANGED <<overlayVars, sceneVars, shaderVars, frameVars, textureVars>>

\* Variant: the callback turns the root about x as well.
FrameStep_AlsoPitches(dt) ==
    /\ elapsed + dt <= MaxElapsed
    /\ elapsed' = elapsed + dt
    /\ IF refAttached
           THEN /\ rotationY' = YawAt(scene, elapsed')
                /\ sceneGraph' = [sceneGraph EXCEPT !.root.rotationX = YawAt(scene, elapsed')]
                /\ frames' = IF frames < FrameCap THEN frames + 1 ELSE frames
           ELSE UNCHANGED <<rotationY, sceneGraph, frames>>
    /\ UNCHANGED <<scene, refAttached>>
    /\ UNCHANGED <<overlayVars, sceneVars, shaderVars, frameVars, textureVars>>

\* The useFrame callback, dt after the previous frame:
\* const t = state.clock.getElapsedTime()
\* if (ref.current) ref.current.rotation.y = Math.sin(t * f) * a
FrameStep(dt) ==
    /\ elapsed + dt <= MaxElapsed
    /\ elapsed' = elapsed + dt
    /\ IF refAttached
           THEN /\ rotationY' = YawAt(scene, elapsed')
                /\ frames' = IF frames < FrameCap THEN frames + 1 ELSE frames
           ELSE UNCHANGED <<rotationY, frames>>
    /\ UNCHANGED <<scene, refAttached, sceneGraph>>
    /\ UNCHANGED <<overlayVars, sceneVars, shaderVars, frameVars, textureVars>>

(***************************************************************************)
(* Meshes of the laptop and the building.  Lengths are in thousandths of a *)
(* scene unit and angles in thousandths of a radian.  pivot and rotation   *)
(* are the position and rotation of the groups around a mesh (the lid's    *)
(* hinge), position and args are the mesh's own.                           *)
(***************************************************************************)
Mesh(component, pivot, rotation, position, args, material) ==
    [ component |-> component, pivot |-> pivot, rotation |-> rotation,
      position |-> position, args |-> args, material |-> material ]

Origin == <<0, 0, 0>>

\* The shaded meshes of a laptop: chassis, keyboard plate, touchpad, accent
\* strip and lid frame.
LaptopMeshes(component, material, openRadians) ==
    { Mesh(component, Origin, Origin, <<0, 50, 0>>, <<2400, 100, 1600>>, material),
      Mesh(component, Origin, Origin, <<0, 110, 0>>, <<2200, 20, 1400>>, material),
      Mesh(component, Origin, Origin, <<500, 120, 300>>, <<500, 5, 350>>, material),
      Mesh(component, Origin, Origin, <<0, 130, -700>>, <<2000, 10, 50>>,
           "meshToonMaterial"),
      Mesh(component, <<0, 120, -750>>, <<openRadians, 0, 0>>, <<0, 700, 0>>,
           <<2200, 1400, 80>>, material) }

\* The shaded meshes an outline is drawn around: those of the two
\* definitions of KillerLaptop, and the main block and the roof of the
\* building.
ShadedMeshes ==
    LaptopMeshes("KillerLaptop", "threeBandToonMaterial", -600)
    \cup LaptopMeshes("KillerLaptop-2", "meshToonMaterial", -1000)
    \cup { Mesh("KillerBuilding3D", Origin, Origin, <<0, 1500, 0>>,
                <<6000, 3000, 3000>>, "threeBandToonMaterial"),
           Mesh("KillerBuilding3D", Origin, Origin, <<0, 3100, 1600>>,
                <<6200, 150, 150>>, "threeBandToonMaterial") }

\* A mesh of a silhouette group: scale is the group's scale, side the
\* material's side.
Outline(component, pivot, rotation, position, args) ==
    [ component |-> component, pivot |-> pivot, rotation |-> rotation,
      position |-> position, args |-> args, material |-> "meshBasicMaterial",
      side |-> "BackSide", scale |-> <<1020, 1020, 1020>> ]

\* The meshes of the three silhouette groups.
OutlineMeshes ==
    { Outline("KillerLaptop", Origin, Origin, <<0, 50, 0>>, <<2400, 100, 1600>>),
      Outline("KillerLaptop", Origin, Origin, <<0, 110, 0>>, <<2200, 20, 1400>>),
      Outline("KillerLaptop", Origin, Origin, <<500, 120, 300>>, <<500, 5, 350>>),
      Outline("KillerLaptop", <<0, 120, -750>>, <<-600, 0, 0>>, <<0, 700, 0>>,
              <<2200, 1400, 80>>),
      Outline("KillerLaptop-2", Origin, Origin, <<0, 50, 0>>, <<2400, 100, 1600>>),
      Outline("KillerLaptop-2", Origin, Origin, <<0, 110, 0>>, <<2200, 20, 1400>>),
      Outline("KillerLaptop-2", Origin, Origin, <<500, 120, 300>>, <<500, 5, 350>>),
      Outline("KillerLaptop-2", Origin, Origin, <<0, 130, -700>>, <<2000, 10, 50>>),
      Outline("KillerLaptop-2", <<0, 120, -750>>, <<-1000, 0, 0>>, <<0, 700, 0>>,
              <<2200, 1400, 80>>),
      Outline("KillerBuilding3D", Origin, Origin, <<0, 1500, 0>>,
              <<6000, 3000, 3000>>),
      Outline("KillerBuilding3D", Origin, Origin, <<0, 3100, 1550>>,
              <<6200, 200, 200>>) }

\* The scene a component belongs to.
SceneOf(component) ==
    IF component = "KillerBuilding3D" THEN "building" ELSE "laptop"

\* The transforms of scene s as the JSX gives them: the root group has no
\* position, rotation or scale prop other than position [0, 0, 0].
SceneGraphOf(s) ==
    [ root     |-> [ position |-> Origin, rotationX |-> 0, rotationZ |-> 0,
                     scale |-> <<1000, 1000, 1000>> ],
      children |-> { m \in ShadedMeshes \cup OutlineMeshes : SceneOf(m.component) = s } ]

(***************************************************************************)
(* createGradientTexture.                                                  *)
(***************************************************************************)
\* const size = 256
TextureSize == 256

\* Variant: the band index is scaled by steps - 1.
BandIndex_OffByOne(i, n) == (i * (n - 1)) \div TextureSize

\* Math.floor((i / size) * steps)
BandIndex(i, n) == (i * n) \div TextureSize

\* Variant: the level is truncated, not rounded.
GrayLevel_Truncated(k, n) == (255 * k) \div (n - 1)

\* t = k / (steps - 1); c = Math.round(t * 255): the multiple of 1 nearest
\* to 255 k / (steps - 1), halves rounded up.
GrayLevel(k, n) == (2 * 255 * k + (n - 1)) \div (2 * (n - 1))

\* A store into a Uint8Array keeps the value modulo 256.
ToUint8(c) == c % 256

\* The array after the loop: data[i*3], data[i*3+1] and data[i*3+2] hold c.
GradientData(n) ==
    [ j \in 0..(3 * TextureSize - 1) |->
        ToUint8(GrayLevel(BandIndex(j \div 3, n), n)) ]

\* createGradientTexture(n): fills a new array.
CreateGradientTexture(n) ==
    /\ data = <<>>
    /\ steps' = n
    /\ data' = GradientData(n)
    /\ UNCHANGED <<laptopMounted, imageLoaded, gradientMap, materialMaps, calls, renders>>
    /\ UNCHANGED <<overlayVars, sceneVars, shaderVars, frameVars, animVars>>

(***************************************************************************)
(* KillerLaptop renders: useMemo(() => createGradientTexture(n), []) and   *)
(* useTexture(omgImage) under <Suspense>.                                  *)
(***************************************************************************)
\* The argument of createGradientTexture in the two definitions of
\* KillerLaptop.
GradientSteps == { 3, 4 }

\* The meshToonMaterial elements that take gradientMap: the accent strip in
\* the first definition, every body material in the second.
GradientMaterials(n) ==
    IF n = 3
    THEN { "accentStrip" }
    ELSE { "chassis", "keyboardPlate", "keys", "touchpad", "accentStrip",
           "hinge", "lidFrame" }

\* The definition that was rendered before is the one rendered again.
RenderedSteps == IF steps = 0 THEN GradientSteps ELSE { steps }

\* First render of a new instance while the image is not loaded: useMemo
\* computes a table, then useTexture suspends and the render is discarded
\* with its hooks.
RenderSuspends ==
    /\ ~laptopMounted
    /\ ~imageLoaded
    /\ calls < CallCap
    /\ calls' = calls + 1
    /\ \E n \in RenderedSteps : steps' = n /\ data' = GradientData(n)
    /\ UNCHANGED <<laptopMounted, imageLoaded, gradientMap, materialMaps, renders>>
    /\ UNCHANGED <<overlayVars, sceneVars, shaderVars, frameVars, animVars>>

\* The image arrives in the loader's cache.
ImageLoads ==
    /\ ~imageLoaded
    /\ imageLoaded' = TRUE
    /\ UNCHANGED <<steps, data, laptopMounted, gradientMap, materialMaps, calls, renders>>
    /\ UNCHANGED <<overlayVars, sceneVars, shaderVars, frameVars, animVars>>

\* First render of a new instance that completes and is committed: useMemo
\* computes a table, every material is given it, and the ref is attached.
MountLaptop ==
    /\ ~laptopMounted
    /\ imageLoaded
    /\ calls < CallCap
    /\ calls' = calls + 1
    /\ \E n \in RenderedSteps :
           /\ steps' = n
           /\ data' = GradientData(n)
           /\ materialMaps' = [ m \in GradientMaterials(n) |-> calls' ]
    /\ gradientMap' = calls'
    /\ laptopMounted' = TRUE
    /\ renders' = 1
    /\ refAttached' = TRUE
    /\ UNCHANGED <<imageLoaded, scene, elapsed, rotationY, sceneGraph, frames>>
    /\ UNCHANGED <<overlayVars, sceneVars, shaderVars, frameVars>>

\* Variant: the table is made in the body of the component, without useMemo.
RerenderLaptop_NoMemo ==
    /\ laptopMounted
    /\ calls < CallCap
    /\ calls' = calls + 1
    /\ gradientMap' = calls'
    /\ materialMaps' = [ m \in DOMAIN materialMaps |-> calls' ]
    /\ renders' = IF renders < RenderCap THEN renders + 1 ELSE renders
    /\ UNCHANGED <<steps, data, laptopMounted, imageLoaded>>
    /\ UNCHANGED <<overlayVars, sceneVars, shaderVars, frameVars, animVars>>

\* A later render of the committed instance: useMemo returns the table of
\* its cell and every material is given it again.
RerenderLaptop ==
    /\ laptopMounted
    /\ materialMaps' = [ m \in DOMAIN materialMaps |-> gradientMap ]
    /\ renders' = IF renders < RenderCap THEN renders + 1 ELSE renders
    /\ UNCHANGED <<steps, data, laptopMounted, imageLoaded, gradientMap, calls>>
    /\ UNCHANGED <<overlayVars, sceneVars, shaderVars, frameVars, animVars>>

\* The instance is unmounted: its hooks, its materials and its ref go.
UnmountLaptop ==
    /\ laptopMounted
    /\ laptopMounted' = FALSE
    /\ gradientMap' = Null
    /\ materialMaps' = <<>>
    /\ renders' = 0
    /\ refAttached' = FALSE
    /\ UNCHANGED <<steps, data, imageLoaded, calls>>
    /\ UNCHANGED <<scene, elapsed, rotationY, sceneGraph, frames>>
    /\ UNCHANGED <<overlayVars, sceneVars, shaderVars, frameVars>>

(***************************************************************************)
(* Initial values of the parts a specification leaves alone.               *)
(***************************************************************************)
InitOverlay ==
    /\ mounted = FALSE
    /\ listeners = 0
    /\ activePopup = Null
    /\ codeContent = ""
    /\ windowConfigs = InitialWindowConfigs
    /\ code = [ w \in DOMAIN InitialWindowConfigs |-> InitialWindowConfigs[w].initialCode ]
    /\ uiEvent = [type |-> "load", target |-> "page", from |-> Null]
    /\ emitted = <<>>

InitShader ==
    /\ uniforms = DefaultUniforms
    /\ dotNL = 0
    /\ gl_FragColor = "unset"

InitFrame ==
    /\ fragments = <<>>
    /\ framebuffer = <<>>
    /\ lastFrame = <<>>

InitAnim ==
    /\ scene = "building"
    /\ refAttached = FALSE
    /\ elapsed = 0
    /\ rotationY = 0
    /\ sceneGraph = SceneGraphOf(scene)
    /\ frames = 0

InitTexture ==
    /\ steps = 0
    /\ data = <<>>
    /\ laptopMounted = FALSE
    /\ imageLoaded = FALSE
    /\ gradientMap = Null
    /\ materialMaps = <<>>
    /\ calls = 0
    /\ renders = 0

(***************************************************************************)
(* Specification of the building scene with its popup overlay.             *)
(***************************************************************************)

Init ==
    /\ mounted = FALSE
    /\ listeners = 0
    /\ activePopup = Null
    /\ codeContent = ""
    /\ windowConfigs = InitialWindowConfigs
    /\ code = [ w \in DOMAIN InitialWindowConfigs |-> InitialWindowConfigs[w].initialCode ]
    /\ uiEvent = [type |-> "load", target |-> "page", from |-> Null]
    /\ emitted = <<>>
    /\ uniforms = DefaultUniforms
    /\ dotNL = 0
    /\ gl_FragColor = "unset"
    /\ InitFrame
    /\ InitAnim
    /\ InitTexture

Next ==
    \/ Mount
    \/ Unmount
    \/ \E w \in BuildingWindows : WindowClick(w)
    \/ \E m \in PlainMeshes : MeshClick(m)
    \/ \E w \in ConfigKeys, t \in EditTexts : CodeChange(w, t)
    \/ \E w \in ConfigKeys : ClosePopup(w)
    \/ \E w \in ConfigKeys : RunCode(w)
    \/ \E w \in ConfigKeys : Save(w)

Spec == Init /\ [][Next]_vars

(***************************************************************************)
(* Specification of the fragment shader over its inputs.                   *)
(***************************************************************************)
InitToon ==
    /\ mounted = FALSE
    /\ listeners = 0
    /\ activePopup = Null
    /\ codeContent = ""
    /\ windowConfigs = InitialWindowConfigs
    /\ code = [ w \in DOMAIN InitialWindowConfigs |-> InitialWindowConfigs[w].initialCode ]
    /\ uiEvent = [type |-> "load", target |-> "page", from |-> Null]
    /\ emitted = <<>>
    /\ uniforms \in UniformValues
    /\ dotNL \in DotValues
    /\ gl_FragColor = "unset"
    /\ InitFrame
    /\ InitAnim
    /\ InitTexture

NextToon ==
    \/ FragmentMain
    \/ \E d \in DotValues : NextFragment(d)
    \/ \E u \in UniformValues : NextMaterial(u)

SpecToon == InitToon /\ [][NextToon]_vars

(***************************************************************************)
(* Specification of a frame drawn fragment by fragment.                    *)
(***************************************************************************)
InitFrames ==
    /\ InitOverlay
    /\ InitShader
    /\ InitAnim
    /\ InitTexture
    /\ fragments \in [ Pixels -> FrameInputs ]
    /\ framebuffer = [ p \in Pixels |-> "unset" ]
    /\ lastFrame = <<>>

NextFrames ==
    \/ \E p \in Pixels : ShadeFragment(p)
    \/ PresentFrame

SpecFrames == InitFrames /\ [][NextFrames]_vars

(***************************************************************************)
(* Specification of the idle animation of one root structure.              *)
(***************************************************************************)
InitAnimation ==
    /\ InitOverlay
    /\ InitShader
    /\ InitFrame
    /\ InitTexture
    /\ scene \in Scenes
    /\ refAttached = FALSE
    /\ elapsed = 0
    /\ rotationY = 0
    /\ sceneGraph = SceneGraphOf(scene)
    /\ frames = 0

NextAnimation ==
    \/ AttachRef
    \/ \E dt \in 0..MaxDt : FrameStep(dt)

SpecAnimation == InitAnimation /\ [][NextAnimation]_vars

(***************************************************************************)
(* Specification of the building scene while it animates: frame callbacks  *)
(* and the handlers of the mounted overlay run one at a time, in any       *)
(* order.                                                                  *)
(***************************************************************************)
InitInterleaved == Init

NextInterleaved ==
    \/ Mount
    \/ AttachRef
    \/ \E dt \in 1..MaxDt : elapsed < MaxInterleaved /\ FrameStep(dt)
    \/ \E w \in BuildingWindows : WindowClick(w)
    \/ \E w \in ConfigKeys : CodeChange(w, TypedText(1))
    \/ \E w \in ConfigKeys : ClosePopup(w)

SpecInterleaved == InitInterleaved /\ [][NextInterleaved]_vars

(***************************************************************************)
(* Specification of the overlay on a page where other scripts dispatch     *)
(* 'windowClick' events too.                                               *)
(***************************************************************************)
InitOpenChannel == Init

NextOpenChannel ==
    \/ Mount
    \/ \E w \in BuildingWindows : WindowClick(w)
    \/ \E d \in ForeignPayloads : ExternalDispatch(d)
    \/ \E w \in ConfigKeys : CodeChange(w, TypedText(1))
    \/ \E w \in ConfigKeys : ClosePopup(w)

SpecOpenChannel == InitOpenChannel /\ [][NextOpenChannel]_vars

(***************************************************************************)
(* Specification of the materials of the program: the renderer draws       *)
(* fragments of meshes whose materials are the program's elements.         *)
(***************************************************************************)
InitMaterials ==
    /\ InitOverlay
    /\ InitShader
    /\ InitFrame
    /\ InitAnim
    /\ InitTexture

NextMaterials ==
    \/ FragmentMain
    \/ \E d \in DotValues : NextFragment(d)
    \/ \E p \in MaterialProps : NextMaterial(ApplyProps(p))

SpecMaterials == InitMaterials /\ [][NextMaterials]_vars

(***************************************************************************)
(* Specification of the laptop scene: the laptop mounts, renders again and *)
(* unmounts while frames are drawn.                                        *)
(***************************************************************************)
InitLaptop ==
    /\ InitOverlay
    /\ InitShader
    /\ InitFrame
    /\ InitTexture
    /\ scene = "laptop"
    /\ refAttached = FALSE
    /\ elapsed = 0
    /\ rotationY = 0
    /\ sceneGraph = SceneGraphOf(scene)
    /\ frames = 0

NextLaptop ==
    \/ RenderSuspends
    \/ ImageLoads
    \/ MountLaptop
    \/ RerenderLaptop
    \/ UnmountLaptop
    \/ \E dt \in 1..MaxDt : elapsed < MaxInterleaved /\ FrameStep(dt)

SpecLaptop == InitLaptop /\ [][NextLaptop]_vars

(***************************************************************************)
(* Specification of createGradientTexture over its argument.               *)
(***************************************************************************)
InitGradient ==
    /\ InitOverlay
    /\ InitShader
    /\ InitFrame
    /\ InitAnim
    /\ InitTexture

NextGradient == \E n \in 2..MaxSteps : CreateGradientTexture(n)

SpecGradient == InitGradient /\ [][NextGradient]_vars

(***************************************************************************)
(* Properties of the popup overlay and the notification channel (Spec).    *)
(***************************************************************************)
InitialCode(id) == windowConfigs[id].initialCode

AnyWindowClick == \E w \in BuildingWindows : WindowClick(w)
AnyClosePopup  == \E w \in ConfigKeys : ClosePopup(w)

\* C1: the active identifier follows the state machine {Closed, Open(id)}.
\* A mounting overlay starts Closed; while it is mounted its active
\* identifier is none or a window identifier; a notification for id' moves
\* it to Open(id') from Closed and from every Open(id); close moves Open(id)
\* to Closed; and the active identifier of a mounted overlay changes in no
\* step other than a notification or a close (not in an edit, Run or Save).
C1_StateMachine ==
    /\ [](mounted => activePopup \in WindowIds \cup {Null})
    /\ [][ /\ Mount => activePopup' = Null
           /\ \A w \in BuildingWindows :
                  (mounted /\ WindowClick(w)) => activePopup' = w.id
           /\ \A id \in ConfigKeys :
                  ClosePopup(id) => (activePopup = id /\ activePopup' = Null)
           /\ (mounted /\ mounted' /\ activePopup' # activePopup)
                  => (AnyWindowClick \/ AnyClosePopup) ]_vars

\* A popup has been closed: Open(id) --close--> Closed.
C1_Witness ==
    /\ mounted
    /\ uiEvent.type = "close"
    /\ uiEvent.from \in WindowIds
    /\ activePopup = Null

\* C2: the latest notification wins. In the state a notification for id
\* leaves a mounted overlay in, the overlay is Open(id) and codeContent is
\* the initial code of id's config, whatever popup was open and whatever
\* text it held before.
C2_LatestWins ==
    \A id \in WindowIds :
        (mounted /\ emitted = <<id>>) =>
            (activePopup = id /\ codeContent = InitialCode(id))

\* "bottom-left" was open and edited when the notification for "top-right"
\* arrived, with no close in between.
C2_Witness ==
    /\ mounted
    /\ emitted = <<"top-right">>
    /\ uiEvent.from = "bottom-left"
    /\ code["bottom-left"] = TypedText(1)
    /\ activePopup = "top-right"
    /\ codeContent = InitialCode("top-right")

\* C3: no stuck state. A close leaves no popup visible, and in every Closed
\* state of a mounted overlay a click on each of the four windows is
\* possible and makes exactly that window's popup visible.
C3_NoStuckState ==
    /\ [](( mounted /\ activePopup = Null) =>
            \A w \in BuildingWindows : ENABLED WindowClick(w))
    /\ [][ /\ \A id \in ConfigKeys :
                  ClosePopup(id) => (activePopup' = Null /\ VisiblePopups' = {})
           /\ \A w \in BuildingWindows :
                  (mounted /\ activePopup = Null /\ WindowClick(w))
                      => VisiblePopups' = {w.id} ]_vars

\* The popup "top-left" was opened, edited and closed, and a notification
\* from the Closed state has made it visible again.
C3_Witness ==
    /\ mounted
    /\ emitted = <<"top-left">>
    /\ uiEvent.from = Null
    /\ code["top-left"] = TypedText(1)
    /\ VisiblePopups = {"top-left"}

\* C4: in the state a notification for id leaves a mounted overlay in, the
\* textarea of id's popup holds id's initial code.
C4_TextareaHoldsInitialCode ==
    \A id \in WindowIds :
        (mounted /\ emitted = <<id>>) => TextareaValue(id) = InitialCode(id)

\* C5: at most one of the four popups is visible, and it is the popup of
\* the active identifier.
C5_AtMostOneVisible ==
    /\ Cardinality(VisiblePopups) <= 1
    /\ VisiblePopups \subseteq {activePopup}
    /\ (mounted /\ activePopup \in ConfigKeys) => VisiblePopups # {}

\* A notification has replaced one open popup by another.
C5_Witness ==
    /\ uiEvent.type = "click"
    /\ uiEvent.from \in WindowIds
    /\ activePopup \in WindowIds
    /\ uiEvent.from # activePopup
    /\ VisiblePopups = {activePopup}

\* The identifier a window has by its place in the 2x2 grid of the facade.
GridId(w) ==
    (IF 2 * w.y < 10 + 22 THEN "bottom" ELSE "top") \o "-" \o
    (IF 2 * w.x < 0 + 20 THEN "left" ELSE "right")

\* C6: a click on a window pane publishes exactly one notification, whose
\* payload is the identifier of that window's place in the grid; a click on
\* any other mesh publishes none.
C6_ClickPublishesOwnId ==
    [][ /\ \A w \in BuildingWindows : WindowClick(w) => emitted' = <<GridId(w)>>
        /\ \A m \in PlainMeshes : MeshClick(m) => emitted' = <<>> ]_vars

\* The pane of the top-right window has been clicked.
C6_Witness ==
    /\ uiEvent.type = "click"
    /\ uiEvent.target = "window-pane"
    /\ emitted = <<"top-right">>

\* C7: a notification published while no listener is attached changes no
\* overlay state, and an overlay that mounts starts Closed with an empty
\* text body and no visible popup.
C7_DroppedWithoutListener ==
    [][ /\ \A w \in BuildingWindows :
               (listeners = 0 /\ WindowClick(w))
                   => UNCHANGED <<activePopup, codeContent, code>>
        /\ Mount => ( /\ activePopup' = Null
                      /\ codeContent' = ""
                      /\ VisiblePopups' = {} ) ]_vars

\* A notification was published with no listener attached and left the
\* overlay state as it was.
C7_Witness ==
    /\ ~mounted
    /\ listeners = 0
    /\ emitted = <<"top-left">>
    /\ activePopup = Null
    /\ codeContent = ""

\* C8: an edit of the open popup's text sets that popup's buffer and
\* codeContent to the new text and leaves the active identifier, the popup
\* configuration and the mount state unchanged; it publishes nothing.
C8_EditChangesOnlyText ==
    [][ \A id \in ConfigKeys, t \in EditTexts :
            CodeChange(id, t) =>
                /\ code'[id] = t
                /\ codeContent' = t
                /\ UNCHANGED <<activePopup, windowConfigs, mounted, listeners>>
                /\ emitted' = <<>> ]_vars

\* The popup "bottom-right" has been edited.
C8_Witness ==
    /\ uiEvent.type = "change"
    /\ activePopup = "bottom-right"
    /\ code["bottom-right"] = TypedText(1)
    /\ codeContent = TypedText(1)

\* C9: "Run Code" and "Save" leave the active identifier, every popup
\* buffer, codeContent and the popup configuration unchanged and publish
\* nothing.
C9_RunAndSaveInert ==
    [][ \A id \in ConfigKeys :
            (RunCode(id) \/ Save(id)) =>
                /\ UNCHANGED <<activePopup, code, codeContent, windowConfigs>>
                /\ emitted' = <<>> ]_vars

\* "Save" has been clicked in a popup whose text was edited.
C9_Witness ==
    /\ uiEvent.type = "save"
    /\ activePopup \in ConfigKeys
    /\ uiEvent.target = activePopup
    /\ code[activePopup] = TypedText(1)
    /\ codeContent = TypedText(1)

\* C16: the identifiers the four clickable windows publish are exactly the
\* keys of windowConfigs, each window's light colour is the accent colour of
\* the config under its identifier, and no step of the overlay or of a click
\* changes a config entry.
C16_ConfigsKeyedByWindowIds ==
    /\ []( /\ { w.id : w \in BuildingWindows } = DOMAIN windowConfigs
           /\ \A w \in BuildingWindows :
                  w.lightColor = windowConfigs[w.id].color
           /\ \A i \in 1..Len(emitted) : emitted[i] \in DOMAIN windowConfigs )
    /\ [][ \A k \in DOMAIN windowConfigs :
               /\ k \in DOMAIN windowConfigs'
               /\ windowConfigs'[k] = windowConfigs[k] ]_vars

\* The top-right popup was edited and then closed; its config still has the
\* colour of the top-right window.
C16_Witness ==
    /\ uiEvent.type = "close"
    /\ uiEvent.target = "top-right"
    /\ code["top-right"] = TypedText(2)
    /\ windowConfigs["top-right"].color = "#f9ca24"

\* C19: in every state one 'windowClick' listener is registered if the
\* overlay is mounted and none otherwise, whatever the number of mounts and
\* unmounts before; a notification published while unmounted changes no
\* overlay state, and one published while mounted runs the handler once:
\* the active identifier is the payload and codeContent its initial code.
C19_ListenerWhileMounted ==
    /\ [](listeners = IF mounted THEN 1 ELSE 0)
    /\ [][ \A w \in BuildingWindows :
               WindowClick(w) =>
                   IF mounted
                   THEN /\ activePopup' = w.id
                        /\ codeContent' = windowConfigs[w.id].initialCode
                        /\ listeners' = 1
                   ELSE /\ UNCHANGED <<activePopup, codeContent, code>>
                        /\ listeners' = 0 ]_vars

\* The overlay has mounted again after a mount in which a popup was open,
\* and has one listener.
C19_Witness ==
    /\ uiEvent.type = "mount"
    /\ uiEvent.from \in ConfigKeys
    /\ mounted
    /\ listeners = 1

\* The step delivers a notification to the overlay's listener and writes its
\* payload.
ReceivedNotification ==
    /\ listeners > 0
    /\ \E w \in BuildingWindows : WindowClick(w) /\ activePopup' = emitted'[1]

\* C20 as claimed: every step that changes the active identifier of a
\* mounted overlay is the effect of a notification the overlay receives.
C20_WrittenOnlyOnNotification ==
    [][ (mounted /\ activePopup' # activePopup) => ReceivedNotification ]_vars

\* C20 as amended: every step that changes the active identifier of a
\* mounted overlay is the effect of a notification the overlay receives or
\* is the overlay's own close of the open popup, which sets it to none; no
\* click in the scene and no other step writes it.
C20_WrittenOnNotificationOrClose ==
    [][ (mounted /\ activePopup' # activePopup) =>
            \/ ReceivedNotification
            \/ /\ ClosePopup(activePopup)
               /\ activePopup' = Null
               /\ emitted' = <<>> ]_vars

\* The bottom-right popup was open and its close button has set the active
\* identifier to none, with no notification published.
C20_Witness ==
    /\ mounted
    /\ listeners = 1
    /\ uiEvent = [type |-> "close", target |-> "bottom-right", from |-> "bottom-right"]
    /\ emitted = <<>>
    /\ activePopup = Null

\* C25: whenever a popup is open, codeContent is the text its textarea
\* shows.
C25_TextBodyIsDisplayedText ==
    \A id \in ConfigKeys : IsVisible(id) => codeContent = TextareaValue(id)

\* C26: an edit in the popup of X, a notification for X and a close of X
\* each leave the text buffer of every popup other than X as it was.
C26_BuffersSeparate ==
    [][ /\ \A x \in ConfigKeys, t \in EditTexts :
               CodeChange(x, t) =>
                   \A y \in ConfigKeys \ {x} : code'[y] = code[y]
        /\ \A w \in BuildingWindows :
               WindowClick(w) =>
                   \A y \in ConfigKeys \ {w.id} : code'[y] = code[y]
        /\ \A x \in ConfigKeys :
               ClosePopup(x) =>
                   \A y \in ConfigKeys \ {x} : code'[y] = code[y] ]_vars

\* Two popups hold two different edited texts and a third its initial code.
C26_Witness ==
    /\ mounted
    /\ code["top-left"] = TypedText(1)
    /\ code["top-right"] = TypedText(2)
    /\ code["bottom-left"] = InitialCode("bottom-left")

\* C27: a notification for id delivered right after a notification for id
\* leaves the active identifier and codeContent as the first left them, and
\* a notification for id received in Open(id) keeps id's popup open and sets
\* codeContent to id's initial code.
C27_NotifyIdempotent ==
    [][ \A w \in BuildingWindows :
            /\ (mounted /\ uiEvent.type = "click" /\ emitted = <<w.id>>
                   /\ WindowClick(w))
                   => (activePopup' = activePopup /\ codeContent' = codeContent)
            /\ (mounted /\ activePopup = w.id /\ WindowClick(w))
                   => /\ activePopup' = w.id
                      /\ VisiblePopups' = {w.id}
                      /\ codeContent' = InitialCode(w.id) ]_vars

\* A notification for the open, edited popup has arrived: the popup is still
\* open and codeContent is its initial code again.
C27_Witness ==
    /\ mounted
    /\ uiEvent.type = "click"
    /\ activePopup \in ConfigKeys
    /\ emitted = <<activePopup>>
    /\ uiEvent.from = activePopup
    /\ code[activePopup] = TypedText(2)
    /\ codeContent = InitialCode(activePopup)

\* C28: a close is enabled only for the popup that is open, so none is
\* enabled in Closed; a close sets the active identifier to none and leaves
\* codeContent, every popup's buffer, the listener and the configuration as
\* they were, and publishes nothing.
C28_CloseOnlyWhenOpen ==
    /\ [](\A x \in ConfigKeys :
              (ENABLED ClosePopup(x)) => (mounted /\ activePopup = x))
    /\ [][ \A x \in ConfigKeys :
               ClosePopup(x) =>
                   /\ activePopup' = Null
                   /\ codeContent' = codeContent
                   /\ code' = code
                   /\ emitted' = <<>>
                   /\ UNCHANGED <<mounted, listeners, windowConfigs>> ]_vars

\* An edited popup has been closed: the texts are those of the edit.
C28_Witness ==
    /\ uiEvent.type = "close"
    /\ uiEvent.target = "top-left"
    /\ activePopup = Null
    /\ codeContent = TypedText(2)
    /\ code["top-left"] = TypedText(2)

(***************************************************************************)
(* Properties of the overlay under foreign notifications (SpecOpenChannel).*)
(***************************************************************************)
\* C24: a notification whose payload is none of the four configured
\* identifiers sets the active identifier to the payload, leaves no popup
\* visible and leaves codeContent as it was; a later notification with a
\* configured identifier opens that identifier's popup.
C24_ForeignPayloadHarmless ==
    [][ /\ \A d \in ForeignPayloads :
               (mounted /\ ExternalDispatch(d)) =>
                   /\ activePopup' = d
                   /\ VisiblePopups' = {}
                   /\ codeContent' = codeContent
        /\ \A w \in BuildingWindows :
               (mounted /\ activePopup \in ForeignPayloads /\ WindowClick(w)) =>
                   VisiblePopups' = {w.id} ]_vars

(***************************************************************************)
(* Properties of the fragment shader (SpecToon).                           *)
(***************************************************************************)
WellFormedThresholds ==
    0 <= uniforms.t1 /\ uniforms.t1 < uniforms.t2 /\ uniforms.t2 <= Scale

\* C10: with 0 <= t1 < t2 <= 1 the colour written is colorA for ndl < t1,
\* colorB for t1 <= ndl < t2 and colorC for ndl >= t2, where ndl is the dot
\* product clamped below at 0; with the default thresholds ndl = 0 gives
\* colorA, ndl = t1 and ndl just below t2 give colorB, ndl = t2 and ndl = 1
\* give colorC; a negative dot product gives colorA whenever t1 > 0.
C10_BandByInterval ==
    (gl_FragColor # "unset" /\ WellFormedThresholds) =>
        LET ndl == IF dotNL < 0 THEN 0 ELSE dotNL
            t1  == uniforms.t1
            t2  == uniforms.t2
            defaults == t1 = T1Default /\ t2 = T2Default
        IN  /\ gl_FragColor \in {uniforms.colorA, uniforms.colorB, uniforms.colorC}
            /\ ndl < t1 => gl_FragColor = uniforms.colorA
            /\ (t1 <= ndl /\ ndl < t2) => gl_FragColor = uniforms.colorB
            /\ ndl >= t2 => gl_FragColor = uniforms.colorC
            /\ (dotNL < 0 /\ t1 > 0) => gl_FragColor = uniforms.colorA
            /\ (defaults /\ dotNL = 0) => gl_FragColor = uniforms.colorA
            /\ (defaults /\ dotNL = T1Default) => gl_FragColor = uniforms.colorB
            /\ (defaults /\ dotNL = T2Default - 1) => gl_FragColor = uniforms.colorB
            /\ (defaults /\ dotNL = T2Default) => gl_FragColor = uniforms.colorC
            /\ (defaults /\ dotNL = Scale) => gl_FragColor = uniforms.colorC

\* A fragment with ndl on the lower boundary of the default thresholds has
\* been shaded in the middle band.
C10_Witness ==
    /\ uniforms.t1 = T1Default
    /\ uniforms.t2 = T2Default
    /\ dotNL = T1Default
    /\ gl_FragColor = uniforms.colorB

\* C29: with t1 >= t2 the shader still writes a palette colour, and never
\* colorB: ndl < t1 gives colorA and every other ndl gives colorC.
C29_MalformedSkipsMiddleBand ==
    (gl_FragColor # "unset" /\ uniforms.t1 >= uniforms.t2) =>
        LET ndl == IF dotNL < 0 THEN 0 ELSE dotNL
        IN  /\ gl_FragColor \in {uniforms.colorA, uniforms.colorC}
            /\ gl_FragColor # uniforms.colorB
            /\ ndl < uniforms.t1 => gl_FragColor = uniforms.colorA
            /\ ndl >= uniforms.t1 => gl_FragColor = uniforms.colorC

\* With the two default thresholds exchanged, a fragment with ndl between
\* them has been shaded in colorA.
C29_Witness ==
    /\ uniforms.t1 = T2Default
    /\ uniforms.t2 = T1Default
    /\ dotNL = Scale \div 2
    /\ gl_FragColor = uniforms.colorA

(***************************************************************************)
(* Properties of a frame (SpecFrames).                                     *)
(***************************************************************************)
\* C11: the shader is stateless and deterministic. Fragments with identical
\* uniforms and dot product get the identical colour whatever was shaded
\* before them in the frame, and a fragment drawn again in the next frame
\* gets the colour it got in the previous one, in whatever order the two
\* frames were shaded.
C11_SameInputsSameColour ==
    /\ \A p, q \in ShadedPixels :
           fragments[p] = fragments[q] => framebuffer[p] = framebuffer[q]
    /\ lastFrame # <<>> =>
           \A p \in ShadedPixels : framebuffer[p] = lastFrame[p]

\* A second frame is complete; two of its fragments have the same inputs
\* and two have different ones.
C11_Witness ==
    /\ lastFrame # <<>>
    /\ ShadedPixels = Pixels
    /\ \E p, q \in Pixels : p # q /\ fragments[p] = fragments[q]
    /\ \E p, q \in Pixels : framebuffer[p] # framebuffer[q]

(***************************************************************************)
(* Properties of the idle animation (SpecAnimation).                       *)
(***************************************************************************)
\* C12: after every animation step at elapsed time t the root yaw is
\* sin(t * 0.2) * 0.3 for the laptop and sin(t * 0.15) * 0.1 for the
\* building; it lies within [-0.3, 0.3] resp. [-0.1, 0.1] and is 0 at t = 0.
C12_YawIsSineOfTime ==
    frames > 0 =>
        /\ scene = "laptop" =>
               /\ rotationY = Scaled(Sin(elapsed * 20), 300)
               /\ 0 - 300 <= rotationY /\ rotationY <= 300
        /\ scene = "building" =>
               /\ rotationY = Scaled(Sin(elapsed * 15), 100)
               /\ 0 - 100 <= rotationY /\ rotationY <= 100
        /\ elapsed = 0 => rotationY = 0

\* The building is in the negative half of its oscillation, beyond half the
\* amplitude.
C12_Witness ==
    /\ scene = "building"
    /\ frames > 0
    /\ rotationY < 0 - 50

\* C13: the animation is not cumulative. The yaw a step leaves is the one
\* that belongs to the elapsed time of that step, whatever the yaw was
\* before and however many steps ran, and a step at the elapsed time of the
\* previous step leaves the yaw as it was.
C13_YawNotCumulative ==
    [][ \A dt \in 0..MaxDt :
            (refAttached /\ FrameStep(dt)) =>
                /\ rotationY' = YawAt(scene, elapsed')
                /\ (frames > 0 /\ dt = 0) => rotationY' = rotationY ]_vars

\* Several steps have run and the laptop is turned away from its rest pose.
C13_Witness ==
    /\ scene = "laptop"
    /\ frames >= 2
    /\ elapsed > MaxDt
    /\ rotationY > 0

(***************************************************************************)
(* Properties of frames interleaved with interaction (SpecInterleaved).    *)
(***************************************************************************)
AnyFrameStep == \E dt \in 1..MaxDt : FrameStep(dt)
AnyCodeChange == \E w \in ConfigKeys, t \in EditTexts : CodeChange(w, t)

\* The popup state is the one the latest interaction left, whatever frames
\* ran before or after it.
PopupStateOfLastInteraction ==
    mounted =>
        /\ (uiEvent.type = "click" /\ emitted # <<>>) =>
               /\ activePopup = emitted[1]
               /\ codeContent = InitialCode(emitted[1])
        /\ uiEvent.type = "change" =>
               /\ activePopup = uiEvent.target
               /\ codeContent = code[uiEvent.target]
        /\ uiEvent.type = "close" => activePopup = Null

\* C21: a frame step writes no popup state and publishes nothing, a
\* notification, edit or close writes nothing of the animation, and in every
\* interleaving the popup state is the one the latest interaction left and
\* the yaw is the one the latest frame step gives for its elapsed time.
C21_FramesAndHandlersIndependent ==
    /\ [][ /\ AnyFrameStep => UNCHANGED <<overlayVars, sceneVars>>
           /\ (AnyWindowClick \/ AnyCodeChange \/ AnyClosePopup)
                  => UNCHANGED animVars ]_vars
    /\ [](frames > 0 => rotationY = YawAt(scene, elapsed))
    /\ []PopupStateOfLastInteraction

\* A popup was opened and edited while the building turned: the yaw is that
\* of the latest frame and the text that of the edit.
C21_Witness ==
    /\ frames >= 2
    /\ rotationY > 0
    /\ uiEvent.type = "change"
    /\ activePopup = "top-left"
    /\ codeContent = TypedText(1)

\* props with invert = v.
WithInvert(props, v) ==
    [ k \in DOMAIN props \cup {"invert"} |-> IF k = "invert" THEN v ELSE props[k] ]

\* props with no invert.
WithoutInvert(props) == [ k \in DOMAIN props \ {"invert"} |-> props[k] ]

\* The props that differ from props at most in invert: absent, 0.0 or 1.0.
InvertVariants(props) ==
    { WithoutInvert(props), WithInvert(props, 0), WithInvert(props, Scale) }

\* C30: the colour written for a fragment of a material made from some
\* props is the band colour of the material made from any props that
\* differ from them only in invert, given or not.
C30_InvertHasNoEffect ==
    gl_FragColor # "unset" =>
        \A p \in MaterialProps :
            uniforms = ApplyProps(p) =>
                \A q \in InvertVariants(p) :
                    gl_FragColor = BandColor(ApplyProps(q), Ndl(dotNL))

\* A lit fragment of a window frame, whose material is given invert, has
\* been shaded in its lightest colour.
C30_Witness ==
    /\ uniforms.colorA = "#2c3e50"
    /\ uniforms.colorC = "#7f8c8d"
    /\ dotNL = Scale
    /\ gl_FragColor = "#7f8c8d"

(***************************************************************************)
(* Properties of a step on the scene graph (SpecAnimation).                *)
(***************************************************************************)
\* C22: an animation step leaves the root's position, scale and rotation
\* about x and z and every child's transform as they were, so that only the
\* root's yaw can change; with no root attached it leaves the yaw too.
C22_StepChangesOnlyYaw ==
    [][ \A dt \in 0..MaxDt :
            FrameStep(dt) =>
                /\ sceneGraph'.root = sceneGraph.root
                /\ sceneGraph'.children = sceneGraph.children
                /\ scene' = scene
                /\ ~refAttached => (rotationY' = rotationY /\ refAttached' = refAttached) ]_vars

\* The laptop has been turned by a step and its other transforms are those
\* of the JSX.
C22_Witness ==
    /\ scene = "laptop"
    /\ frames = 1
    /\ rotationY # 0
    /\ sceneGraph.root.scale = <<1000, 1000, 1000>>
    /\ sceneGraph.root.rotationX = 0
    /\ Cardinality(sceneGraph.children) > 0

(***************************************************************************)
(* Properties of the program's materials (SpecMaterials).                  *)
(***************************************************************************)
\* C18: the uniforms of every ThreeBandToonMaterial of the program, with
\* the defaults or with the props of a laptop, window or building mesh,
\* satisfy 0 <= t1 < t2 <= 1 and have a light direction other than the zero
\* vector.
C18_ThresholdsOrderedLightNonZero ==
    /\ 0 <= uniforms.t1
    /\ uniforms.t1 < uniforms.t2
    /\ uniforms.t2 <= Scale
    /\ \E i \in 1..3 : uniforms.lightDir[i] # 0

\* A fragment of a building mesh given the prop invert has been shaded.
C18_Witness ==
    /\ uniforms.colorA = "#6b5b47"
    /\ uniforms.t1 = T1Default
    /\ gl_FragColor # "unset"

(***************************************************************************)
(* Properties of the scene's meshes (SpecAnimation).                       *)
(***************************************************************************)
\* The silhouette meshes in the committed scene.
RenderedOutlines ==
    IF refAttached
    THEN { o \in OutlineMeshes : SceneOf(o.component) = scene }
    ELSE {}

\* The outline o has the place, the rotation and the dimensions of m.
DuplicateOf(o, m) ==
    /\ o.component = m.component
    /\ o.pivot = m.pivot
    /\ o.rotation = m.rotation
    /\ o.position = m.position
    /\ o.args = m.args

\* C17: every silhouette mesh of a rendered laptop or building has the local
\* position, rotation and dimensions of a shaded mesh of its component, lies
\* under a group scaled by 1.02 on every axis, and is drawn back faces only
\* in a flat colour.
C17_OutlineDuplicatesSource ==
    \A o \in RenderedOutlines :
        /\ \E m \in ShadedMeshes :
               /\ DuplicateOf(o, m)
               /\ m.material \in { "threeBandToonMaterial", "meshToonMaterial" }
        /\ o.scale = <<1020, 1020, 1020>>
        /\ o.side = "BackSide"
        /\ o.material = "meshBasicMaterial"

(***************************************************************************)
(* Properties of the laptop's gradient map (SpecLaptop).                   *)
(***************************************************************************)
\* C23 as claimed: whatever animation steps, re-renders, unmounts and
\* remounts have happened, createGradientTexture has been invoked at most
\* once, and every material that takes a gradient map has the same table.
C23_CalledAtMostOnce ==
    /\ calls <= 1
    /\ \A m \in DOMAIN materialMaps : materialMaps[m] = gradientMap

\* C23 as amended: createGradientTexture is invoked once in each first
\* render of a new laptop instance and in no animation step and no later
\* render; while the instance is mounted its table stays the same one and
\* every material that takes a gradient map has it.
C23_CalledOncePerFirstRender ==
    /\ [][ /\ (AnyFrameStep \/ RerenderLaptop) =>
                  (calls' = calls /\ gradientMap' = gradientMap /\ data' = data)
           /\ (RenderSuspends \/ MountLaptop) => calls' = calls + 1
           /\ (laptopMounted /\ laptopMounted') => gradientMap' = gradientMap
           /\ calls' # calls => ~laptopMounted ]_vars
    /\ [](laptopMounted =>
             /\ gradientMap \in 1..calls
             /\ DOMAIN materialMaps = GradientMaterials(steps)
             /\ \A m \in DOMAIN materialMaps : materialMaps[m] = gradientMap)

\* The laptop of the second definition has rendered again and turned, and
\* still has the table its first render made.
C23_Witness ==
    /\ laptopMounted
    /\ steps = 4
    /\ renders = RenderCap
    /\ frames > 0
    /\ calls = 1
    /\ gradientMap = 1
    /\ materialMaps["lidFrame"] = 1

(***************************************************************************)
(* Properties of createGradientTexture (SpecGradient).                     *)
(***************************************************************************)
\* Sample i of the table: its red channel.
Sample(i) == data[3 * i]

\* c is a / b rounded to the nearest integer, halves up.
IsRounded(c, a, b) == 2 * b * c <= 2 * a + b /\ 2 * a + b < 2 * b * c + 2 * b

\* The table has 256 samples of three equal channels, sample i is
\* round(255 * floor((i / 256) * n) / (n - 1)) and lies in [0, 255], and
\* sample 0 is 0.
TableAsComputed ==
    /\ DOMAIN data = 0..(3 * 256 - 1)
    /\ \A i \in 0..255 :
           /\ data[3 * i + 1] = Sample(i) /\ data[3 * i + 2] = Sample(i)
           /\ IsRounded(Sample(i), 255 * ((i * steps) \div 256), steps - 1)
           /\ 0 <= Sample(i) /\ Sample(i) <= 255
    /\ Sample(0) = 0

\* C14 as claimed: for every n >= 2 the table is as computed above and
\* sample 255 is 255.
C14_TableForEverySteps ==
    data # <<>> => (TableAsComputed /\ Sample(255) = 255)

\* C14 as amended: for every n >= 2 the table is as computed above, and
\* sample 255 is 255 for every n from 2 to 256.
C14_TableUpTo256Steps ==
    data # <<>> =>
        /\ TableAsComputed
        /\ steps <= 256 => Sample(255) = 255

\* The table of createGradientTexture(4).
C14_Witness ==
    /\ steps = 4
    /\ data # <<>>
    /\ Sample(255) = 255

\* C15: for each n from 2 to 256 the table holds exactly n distinct levels
\* and is non-decreasing in the index; for n = 3 the levels are three.
C15_DistinctLevelsMonotone ==
    (data # <<>> /\ steps <= 256) =>
        /\ Cardinality({ Sample(i) : i \in 0..255 }) = steps
        /\ \A i \in 0..254 : Sample(i) <= Sample(i + 1)
        /\ steps = 3 => Cardinality({ Sample(i) : i \in 0..255 }) = 3

\* The table of createGradientTexture(3), with its three levels.
C15_Witness ==
    /\ steps = 3
    /\ data # <<>>
    /\ { Sample(i) : i \in 0..255 } = { 0, 128, 255 }

====
